---- MODULE Spec2Model ----
(***************************************************************************)
(* diecast_bot: the dice-notation parser (bot/parser.py), the roll-request *)
(* handler of bot/client.py and the older all-in-one handler of            *)
(* bot/__init__.py.  Text is a sequence of one-character strings.          *)
(***************************************************************************)
EXTENDS Integers, Sequences, FiniteSets, TLC

VARIABLES
  impl,                  \* which DieCastBot runs: bot/client.py or bot/__init__.py
  pc,                    \* "idle", "posted" (a message is in flight), "sending"
  message,               \* the text after "!diecast [roll]" of the message in flight
  content,               \* the request string the roll handler was given
  parser,                \* the DieCastParser built for it: what it raised, its _tree
  reply,                 \* what the handler answered (or raised), with its locals
  roll_request_counter   \* DieCastBot._roll_request_counter (bot/client.py)

vars == <<impl, pc, message, content, parser, reply, roll_request_counter>>

-----------------------------------------------------------------------------
(* Bounds of the model                                                     *)

\* terms in an arithmetic request  term (op term)*
MaxTerms == 3
\* pieces in a free-form (possibly malformed) request
MaxPieces == 3
\* roll requests one bot instance services successfully
MaxRequests == 1
\* requests whose evaluation has more RNG outcomes than this are not enumerated
MaxOutcomes == 400

-----------------------------------------------------------------------------
(* Python str helpers                                                      *)

DigitChars == {"0", "1", "2", "3", "4", "5", "6", "7", "8", "9"}

isdigit(c) == c \in DigitChars

isspace(c) == c = " "

DigitVal(c) ==
  CASE c = "0" -> 0 [] c = "1" -> 1 [] c = "2" -> 2 [] c = "3" -> 3
    [] c = "4" -> 4 [] c = "5" -> 5 [] c = "6" -> 6 [] c = "7" -> 7
    [] c = "8" -> 8 [] c = "9" -> 9

\* int(s) of a non-empty run of decimal digits
RECURSIVE int(_)
int(s) ==
  IF s = <<>> THEN 0
  ELSE 10 * int(SubSeq(s, 1, Len(s) - 1)) + DigitVal(s[Len(s)])

\* s[i:]  (i is the 1-based position of the first character kept)
From(s, i) == SubSeq(s, i, Len(s))

\* number of consecutive digits of s starting at position i
RECURSIVE DigitRun(_, _)
DigitRun(s, i) ==
  IF i <= Len(s) /\ isdigit(s[i]) THEN 1 + DigitRun(s, i + 1) ELSE 0

\* number of consecutive whitespace characters of s starting at position i
RECURSIVE SpaceRun(_, _)
SpaceRun(s, i) ==
  IF i <= Len(s) /\ isspace(s[i]) THEN 1 + SpaceRun(s, i + 1) ELSE 0

\* number of consecutive non-whitespace characters of s starting at position i
RECURSIVE WordRun(_, _)
WordRun(s, i) ==
  IF i <= Len(s) /\ ~isspace(s[i]) THEN 1 + WordRun(s, i + 1) ELSE 0

lstrip(s) == From(s, 1 + SpaceRun(s, 1))

RECURSIVE rstrip(_)
rstrip(s) ==
  IF s # <<>> /\ isspace(s[Len(s)]) THEN rstrip(SubSeq(s, 1, Len(s) - 1)) ELSE s

strip(s) == rstrip(lstrip(s))

\* s.split(): the whitespace-separated words of s
RECURSIVE split(_)
split(s) ==
  LET t == lstrip(s)
      w == WordRun(t, 1)
  IN IF t = <<>> THEN <<>> ELSE <<SubSeq(t, 1, w)>> \o split(From(t, w + 1))

\* " ".join(chunks)
RECURSIVE join(_)
join(chunks) ==
  IF chunks = <<>> THEN <<>>
  ELSE IF Len(chunks) = 1 THEN chunks[1]
  ELSE chunks[1] \o <<" ">> \o join(Tail(chunks))

-----------------------------------------------------------------------------
(* DieCastParser (bot/parser.py)                                           *)

None == [type |-> "None"]

ParseNode(text, type) == [type |-> type, raw |-> text, children |-> <<>>]

\* what a parse function does: return (node, rest) or raise err
Return(node, rest) == [err |-> "", node |-> node, rest |-> rest]
Raise(err) == [err |-> err, node |-> None, rest |-> <<>>]

\* ParseNode.add_child: TypeError unless the child is a ParseNode
add_child(node, child) ==
  IF child = None THEN Raise("TypeError")
  ELSE Return([node EXCEPT !.children = Append(@, child)], <<>>)

\* (as _const, but a leading '-' is taken as the sign of the literal)
_const_signed(text0) ==
  LET text == strip(text0)
      neg == IF text # <<>> /\ text[1] = "-" THEN 1 ELSE 0
      i == DigitRun(text, 1 + neg)
  IN IF i = 0 THEN Raise("ParseError")
     ELSE Return(ParseNode(SubSeq(text, 1, neg + i), "constant"), From(text, neg + i + 1))

\* constant -> (\d+)
_const(text0) ==
  LET text == strip(text0)
      i == DigitRun(text, 1)
  IN IF i = 0 THEN Raise("ParseError")
     ELSE Return(ParseNode(SubSeq(text, 1, i), "constant"), From(text, i + 1))

\* op -> [+-]
_op(text0) ==
  LET text == strip(text0)
  IN IF text = <<>> THEN Raise("IndexError")
     ELSE IF text[1] \in {"+", "-"}
          THEN Return(ParseNode(<<text[1]>>, "operator"), From(text, 2))
          ELSE Raise("ParseError")

\* diecast -> ((\d*)\s*d\s*(\d+)), matched at the start of the stripped text;
\* the rest is group 4, (.*).  The fields n and size hold Python values that are
\* a str here ([str |-> text]) and an int ([int |-> k]) once converted.
_diecast(text0) ==
  LET text == strip(text0)
      g2 == DigitRun(text, 1)
      d == g2 + 1 + SpaceRun(text, g2 + 1)
      s == d + 1 + SpaceRun(text, d + 1)
      g3 == DigitRun(text, s)
  IN IF d <= Len(text) /\ text[d] = "d" /\ g3 >= 1
     THEN Return([type |-> "diecast",
                  raw |-> SubSeq(text, 1, s + g3 - 1),
                  children |-> <<>>,
                  n |-> [str |-> IF g2 > 0 THEN SubSeq(text, 1, g2) ELSE <<"1">>],
                  size |-> [str |-> SubSeq(text, s, s + g3 - 1)]],
                 From(text, s + g3))
     ELSE Raise("ParseError")

Keywords ==
  { <<"a", "d", "v">>,
    <<"d", "i", "s">>,
    <<"a", "d", "v", "a", "n", "t", "a", "g", "e">>,
    <<"d", "i", "s", "a", "d", "v", "a", "n", "t", "a", "g", "e">> }

\* adv -> 'adv' | 'advantage' | 'dis' | 'disadvantage'
_adv(text0) ==
  LET text == strip(text0)
      k == WordRun(text, 1)
      keyword == SubSeq(text, 1, k)
      rest == From(text, k + 1 + SpaceRun(text, k + 1))
  IN IF text = <<>> THEN Raise("IndexError")
     ELSE IF keyword \in Keywords
          THEN Return(ParseNode(SubSeq(keyword, 1, 3), "adv"), rest)
          ELSE Raise("ParseError")

\* Results are handed on as operator arguments: first_of picks what the
\* try/except pyramid of _term ends with, a ParseError passing to the next
first_of(a, b, c) ==
  IF a.err # "ParseError" THEN a
  ELSE IF b.err # "ParseError" THEN b
  ELSE c

term_of(text, m) ==
  IF m.err # "" THEN m
  ELSE Return(add_child(ParseNode(text, "term"), m.node).node, m.rest)

\* term -> diecast | constant | adv
_term(text) == term_of(text, first_of(_diecast(text), _const(text), _adv(text)))

\* return node, rest  unless add_child raised
returned(added, rest) == IF added.err # "" THEN added ELSE Return(added.node, rest)

RECURSIVE _expr(_), _term_tail(_)

expr_tail(node, tt) ==
  IF tt.err # "" THEN tt ELSE returned(add_child(node, tt.node), tt.rest)

expr_of(node, t) ==
  IF t.err # "" THEN t
  ELSE IF t.rest # <<>>
       THEN expr_tail(add_child(node, t.node).node, _term_tail(t.rest))
       ELSE returned(add_child(node, t.node), <<>>)

\* expr -> eps. | term | term term_tail
_expr(text) ==
  IF text = <<>> THEN Return(None, <<>>)
  ELSE expr_of(ParseNode(text, "expression"), _term(text))

tail_expr(node, e) ==
  IF e.err # "" THEN e ELSE returned(add_child(node, e.node), e.rest)

tail_of(node, o) ==
  IF o.err # "" THEN o
  ELSE tail_expr(add_child(node, o.node).node, _expr(o.rest))

\* term_tail -> eps. | op expr
_term_tail(text) ==
  IF text = <<>> THEN Return(None, <<>>)
  ELSE tail_of(ParseNode(text, "term_tail"), _op(text))

\* S -> expr ; DieCastParser(text) leaves self._tree or raises
_start(text) == _expr(text)

terminal_types == {"constant", "operator", "diecast", "adv"}

RECURSIVE _walk(_)
RECURSIVE WalkChildren(_, _)

\* (as WalkChildren, but the last child is walked first)
RECURSIVE WalkChildren_reversed(_, _)
WalkChildren_reversed(children, i) ==
  IF i > Len(children) THEN <<>>
  ELSE WalkChildren_reversed(children, i + 1) \o _walk(children[i])

WalkChildren(children, i) ==
  IF i > Len(children) THEN <<>>
  ELSE _walk(children[i]) \o WalkChildren(children, i + 1)

\* the terminal nodes of the tree, the node itself before its children
_walk(node) ==
  (IF node.type \in terminal_types THEN <<node>> ELSE <<>>)
    \o WalkChildren(node.children, 1)

\* walk_terminal_nodes: NoTreeError when there is no tree
walk_terminal_nodes(t) ==
  IF t = None THEN [err |-> "NoTreeError", nodes |-> <<>>]
  ELSE [err |-> "", nodes |-> _walk(t)]

-----------------------------------------------------------------------------
(* The evaluation loop of the roll handlers                                *)

DIE_COUNT_DIGITS == 5
DIE_SIZE_DIGITS == 6
ADV_DIE == 20
REPORT_LIMIT == 25

\* (as randint, but the range starts one lower)
randint_from_zero(a, b) == (a - 1) .. b

\* random.randint(a, b): any integer of a..b; ValueError when the range is empty
randint(a, b) == a .. b

RECURSIVE sum(_)
sum(xs) == IF xs = <<>> THEN 0 ELSE xs[1] + sum(Tail(xs))

min(xs) == CHOOSE x \in {xs[i] : i \in DOMAIN xs} : \A i \in DOMAIN xs : x <= xs[i]
max(xs) == CHOOSE x \in {xs[i] : i \in DOMAIN xs} : \A i \in DOMAIN xs : x >= xs[i]

\* an entry of components: one number, or a list of numbers
Scalar(x) == [list |-> FALSE, vals |-> <<x>>]
List(xs) == [list |-> TRUE, vals |-> xs]

\* the locals of the handler when the loop starts; trace and converted are
\* history: for each terminal the loop has dealt with, what the RNG returned
\* and the locals after it; and how many diecast nodes had n and size rebound
\* to ints
Locals0 ==
  [scalar |-> 1, const_total |-> 0, num_casts |-> 0, total |-> 0,
   components |-> <<>>, trace |-> <<>>, converted |-> 0]

Logged(st, i, node, draws) ==
  [st EXCEPT !.trace = Append(@, [idx |-> i, type |-> node.type, draws |-> draws,
                                  scalar |-> st.scalar, total |-> st.total,
                                  const_total |-> st.const_total,
                                  num_casts |-> st.num_casts,
                                  components |-> st.components])]

\* if node.type == "operator"
operator_scalar(raw) == IF raw = <<"+">> THEN 1 ELSE -1

\* (as operator_step, but the operator's sign multiplies the running one)
operator_step_multiply(st, i, node) ==
  Logged([st EXCEPT !.scalar = @ * operator_scalar(node.raw)], i, node, <<>>)

operator_step(st, i, node) ==
  Logged([st EXCEPT !.scalar = operator_scalar(node.raw)], i, node, <<>>)

\* (as constant_value, but the running sign is not applied)
constant_value_unsigned(scalar, raw) == int(raw)

\* if node.type == "constant"
constant_value(scalar, raw) == scalar * int(raw)

constant_step(st, i, node) ==
  Logged([st EXCEPT !.const_total = @ + constant_value(st.scalar, node.raw)],
         i, node, <<>>)

\* (as functor, but always the higher roll)
functor_max(raw, rolls) == max(rolls)

\* functor = min if node.raw == "dis" else max
functor(raw, rolls) == IF raw = <<"d", "i", "s">> THEN min(rolls) ELSE max(rolls)

\* if node.type == "adv", with the two rolls the RNG gave
adv_step(st, i, node, rolls) ==
  LET result == st.scalar * functor(node.raw, rolls)
  IN Logged([st EXCEPT !.total = @ + result,
                       !.components = Append(@, List(rolls)),
                       !.num_casts = @ + 2],
            i, node, rolls)

\* the guard of bot/client.py on the digits of n and size; "" when it passes
size_check(n, size) ==
  IF Len(n) > DIE_COUNT_DIGITS THEN "too_many_dice"
  ELSE IF Len(size) > DIE_SIZE_DIGITS THEN "die_too_large"
  ELSE ""

\* [scalar * random.randint(1, node.size) for _ in range(node.n)]
group_of(scalar, rolls) == [k \in DOMAIN rolls |-> scalar * rolls[k]]

\* if node.type == "diecast", n and size being ints, with the rolls the RNG gave
diecast_step(st, i, node, n, rolls) ==
  LET group == group_of(st.scalar, rolls)
  IN IF n > 1
     THEN Logged([st EXCEPT !.num_casts = @ + n,
                            !.total = @ + sum(group),
                            !.components = Append(@, List(group))],
                 i, node, rolls)
     ELSE Logged([st EXCEPT !.num_casts = @ + n,
                            !.total = @ + group[1],
                            !.components = Append(@, Scalar(group[1]))],
                 i, node, rolls)

\* the rolls of one diecast term: n of them if n > 1, else one
Rolls(n, size) == [1 .. (IF n > 1 THEN n ELSE 1) -> randint(1, size)]

\* (as show_components, but the limit itself still shows)
show_components_inclusive(num_casts) == num_casts <= REPORT_LIMIT

\* if num_casts < 25
show_components(num_casts) == num_casts < REPORT_LIMIT

\* what the handler says, or the exception that leaves it
Answer(response, raised, st) ==
  [response |-> response, raised |-> raised, verb |-> "", breakdown |-> FALSE,
   total |-> st.total, components |-> st.components, num_casts |-> st.num_casts,
   trace |-> st.trace, converted |-> st.converted]

\* (as finish, but a constant portion of 0 is not tacked on)
finish_skipping_zero(st) ==
  LET components == IF st.const_total = 0 THEN st.components
                    ELSE Append(st.components, Scalar(st.const_total))
      total == st.total + st.const_total
  IN [response |-> "total", raised |-> "",
      verb |-> IF st.num_casts # 0 THEN "rolled" ELSE "computed",
      breakdown |-> show_components(st.num_casts),
      total |-> total, components |-> components, num_casts |-> st.num_casts,
      trace |-> st.trace, converted |-> st.converted]

\* after the loop: tack on the constant portion and word the response
finish(st) ==
  LET components == Append(st.components, Scalar(st.const_total))
      total == st.total + st.const_total
  IN [response |-> "total", raised |-> "",
      verb |-> IF st.num_casts # 0 THEN "rolled" ELSE "computed",
      breakdown |-> show_components(st.num_casts),
      total |-> total, components |-> components, num_casts |-> st.num_casts,
      trace |-> st.trace, converted |-> st.converted]

\* for node in tree.walk_terminal_nodes(): ...   (bot/client.py); the set of
\* all the ways it can end, one for each run of RNG results
RECURSIVE roll_loop(_, _, _)
roll_loop(nodes, i, st) ==
  IF i > Len(nodes) THEN {finish(st)}
  ELSE LET node == nodes[i]
       IN CASE node.type = "operator" -> roll_loop(nodes, i + 1, operator_step(st, i, node))
            [] node.type = "constant" -> roll_loop(nodes, i + 1, constant_step(st, i, node))
            [] node.type = "adv" ->
                 UNION { roll_loop(nodes, i + 1, adv_step(st, i, node, <<r1, r2>>)) :
                           <<r1, r2>> \in randint(1, ADV_DIE) \X randint(1, ADV_DIE) }
            [] node.type = "diecast" ->
                 LET verdict == size_check(node.n.str, node.size.str)
                     n == int(node.n.str)
                     size == int(node.size.str)
                     st1 == [st EXCEPT !.converted = @ + 1]
                 IN IF verdict # "" THEN {Answer(verdict, "", st)}
                    ELSE IF randint(1, size) = {} THEN {Answer("", "ValueError", st1)}
                    ELSE UNION { roll_loop(nodes, i + 1, diecast_step(st1, i, node, n, rolls)) :
                                   rolls \in Rolls(n, size) }

\* the same loop in bot/__init__.py: no guard on the digits, and n and size
\* were made ints by its parser
RECURSIVE legacy_roll_loop(_, _, _)
legacy_roll_loop(nodes, i, st) ==
  IF i > Len(nodes) THEN {finish(st)}
  ELSE LET node == nodes[i]
       IN CASE node.type = "operator" ->
                 legacy_roll_loop(nodes, i + 1, operator_step(st, i, node))
            [] node.type = "constant" ->
                 legacy_roll_loop(nodes, i + 1, constant_step(st, i, node))
            [] node.type = "adv" ->
                 UNION { legacy_roll_loop(nodes, i + 1, adv_step(st, i, node, <<r1, r2>>)) :
                           <<r1, r2>> \in randint(1, ADV_DIE) \X randint(1, ADV_DIE) }
            [] node.type = "diecast" ->
                 LET n == node.n.int
                     size == node.size.int
                 IN IF randint(1, size) = {} THEN {Answer("", "ValueError", st)}
                    ELSE UNION { legacy_roll_loop(nodes, i + 1,
                                                  diecast_step(st, i, node, n, rolls)) :
                                   rolls \in Rolls(n, size) }

\* node.n = int(node.n); node.size = int(node.size)  on the first k diecast
\* nodes of the tree, in walk order.  [node, left]: the tree, and how many
\* conversions are still to be made after it
RECURSIVE Rebind(_, _)
RECURSIVE RebindChildren(_, _, _)
RebindChildren(children, i, k) ==
  IF i > Len(children) THEN [nodes |-> <<>>, left |-> k]
  ELSE LET head == Rebind(children[i], k)
           tail == RebindChildren(children, i + 1, head.left)
       IN [nodes |-> <<head.node>> \o tail.nodes, left |-> tail.left]

Rebind(node, k) ==
  IF node.type = "diecast"
  THEN IF k > 0
       THEN [node |-> [node EXCEPT !.n = [int |-> int(node.n.str)],
                                   !.size = [int |-> int(node.size.str)]],
             left |-> k - 1]
       ELSE [node |-> node, left |-> k]
  ELSE LET c == RebindChildren(node.children, 1, k)
       IN [node |-> [node EXCEPT !.children = c.nodes], left |-> c.left]

\* the tree as the parser of bot/__init__.py builds it: its _diecast stores
\* int(match.group(2)) and int(match.group(3)); the rest of it is parser.py
ints_of(p, k) ==
  IF p.err # "" \/ p.node = None THEN p
  ELSE [p EXCEPT !.node = Rebind(p.node, k).node]

legacy_start(text) == ints_of(_start(text), Len(text))

\* DieCastParser(text): the object, or the exception its constructor raised
Constructed(p) == [built |-> TRUE, raised |-> p.err, _tree |-> p.node]

DieCastParser(text) == Constructed(_start(text))

LegacyDieCastParser(text) == Constructed(legacy_start(text))

NoParser == [built |-> FALSE, raised |-> "", _tree |-> None]

\* the characters bot/__init__.py refuses before it parses
Unsupported == {"*", "/", "%", "(", ")"}

has_unsupported(text) == \E i \in DOMAIN text : text[i] \in Unsupported

NoLocals == Locals0

\* (as serviced, but every answered request counts)
serviced_always(response) == 1

\* self._roll_request_counter += 1, in the else branch of the try
serviced(response) == IF response = "total" THEN 1 ELSE 0

\* what a call that ends before the loop hands back
Ended(response, raised, tree) ==
  {[reply |-> Answer(response, raised, NoLocals), parser |-> tree,
    serviced |-> serviced(response)]}

\* the else branch of the try: the loop over the walk, and what follows it
rolled(tree, walk) ==
  IF walk.err # "" THEN Ended("", walk.err, tree)
  ELSE { [reply |-> r,
          parser |-> [tree EXCEPT !._tree = Rebind(@, r.converted).node],
          serviced |-> serviced(r.response)] :
           r \in roll_loop(walk.nodes, 1, Locals0) }

parsed(tree) ==
  IF tree.raised = "ParseError" THEN Ended("parse_error", "", tree)
  ELSE IF tree.raised # "" THEN Ended("", tree.raised, tree)
  ELSE rolled(tree, walk_terminal_nodes(tree._tree))

\* DieCastBot._on_roll_request (bot/client.py): every way the call can end,
\* as [reply, parser, serviced]
_on_roll_request(msg_contents) == parsed(DieCastParser(msg_contents))

legacy_rolled(tree, walk) ==
  IF walk.err # "" THEN Ended("", walk.err, tree)
  ELSE { [reply |-> r, parser |-> tree, serviced |-> 0] :
           r \in legacy_roll_loop(walk.nodes, 1, Locals0) }

legacy_parsed(tree) ==
  IF tree.raised = "ParseError" THEN Ended("parse_error", "", tree)
  ELSE IF tree.raised # "" THEN Ended("", tree.raised, tree)
  ELSE legacy_rolled(tree, walk_terminal_nodes(tree._tree))

\* the roll request part of DieCastBot.on_message of bot/__init__.py
legacy_roll_request(msg_contents) ==
  IF has_unsupported(msg_contents) THEN Ended("unsupported", "", NoParser)
  ELSE legacy_parsed(LegacyDieCastParser(msg_contents))

-----------------------------------------------------------------------------
(* The requests the model posts                                            *)

Cat(A, B) == {a \o b : a \in A, b \in B}

ArithTerms == { <<"1">>, <<"1", "0">>, <<"d", "2">>, <<"2", "d", "1">> }
ArithOps == { <<"+">>, <<"-">> }

\* term (op term)* with at most k terms
RECURSIVE Arith(_)
Arith(k) ==
  IF k <= 1 THEN ArithTerms
  ELSE Arith(k - 1) \cup Cat(Cat(Arith(k - 1), ArithOps), ArithTerms)

\* one dice cast with every shape of count and faces, alone or inside a sum
CountTexts ==
  { <<>>, <<"0">>, <<"1">>, <<"2">>, <<"2", "4">>, <<"2", "5">>,
    <<"0", "0", "0", "0", "2">>, <<"0", "0", "0", "0", "0", "2">> }
FaceTexts ==
  { <<"0">>, <<"1">>, <<"2">>, <<"0", "0", "0", "0", "0", "2">>,
    <<"0", "0", "0", "0", "0", "0", "2">> }
DSeps == { <<"d">>, <<" ", "d", " ">> }
Before == { <<>>, <<"1", "-">>, <<"d", "2", "+">> }
After == { <<>>, <<"+", "d", "2">>, <<"-", "1">> }
Casts == Cat(Cat(Cat(Cat(Before, CountTexts), DSeps), FaceTexts), After)

\* the keywords other than adv
Words ==
  { <<"d", "i", "s">>,
    <<"1", "-", "d", "i", "s">>,
    <<"a", "d", "v", "a", "n", "t", "a", "g", "e">>,
    <<"d", "i", "s", "a", "d", "v", "a", "n", "t", "a", "g", "e">>,
    <<"1", " ", "-", " ", "d", "i", "s", "a", "d", "v", "a", "n", "t", "a", "g", "e">> }

\* arithmetic the bot does not do
Products ==
  { <<"2", "*", "3">>, <<"2", "/", "3">>, <<"2", "%", "3">>,
    <<"(", "2", ")">>, <<"2", ")">>, <<"a", "d", "v", " ", "*", " ", "2">>,
    <<"1", "d", "2", "*", "2">> }

\* anything made of at most k of these pieces, well formed or not
Pieces ==
  { <<"1">>, <<"d">>, <<"+">>, <<"-">>, <<" ">>, <<"*">>, <<"x">>, <<"a", "d", "v">> }

RECURSIVE Free(_)
Free(k) == IF k <= 0 THEN {<<>>} ELSE Free(k - 1) \cup Cat(Free(k - 1), Pieces)

Texts == UNION {Arith(MaxTerms), Casts, Words, Products, Free(MaxPieces)}

\* how many runs of RNG results the evaluation of these terminals has, counted
\* up to MaxOutcomes + 1
Times(acc, f) == IF f > MaxOutcomes \/ acc * f > MaxOutcomes THEN MaxOutcomes + 1 ELSE acc * f

RECURSIVE Power(_, _, _)
Power(acc, f, n) ==
  IF n <= 0 \/ f <= 1 \/ acc > MaxOutcomes THEN acc ELSE Power(Times(acc, f), f, n - 1)

RECURSIVE Outcomes(_, _, _, _)
Outcomes(which, nodes, i, acc) ==
  IF i > Len(nodes) \/ acc > MaxOutcomes THEN acc
  ELSE LET node == nodes[i]
       IN IF node.type = "adv"
          THEN Outcomes(which, nodes, i + 1, Times(acc, ADV_DIE * ADV_DIE))
          ELSE IF node.type = "diecast"
          THEN IF which = "client" /\ size_check(node.n.str, node.size.str) # "" THEN acc
               ELSE LET n == int(node.n.str) IN
                    Outcomes(which, nodes, i + 1,
                             Power(acc, int(node.size.str), IF n > 1 THEN n ELSE 1))
          ELSE Outcomes(which, nodes, i + 1, acc)

Countable(which, p) ==
  IF p.err # "" THEN TRUE
  ELSE IF p.node = None THEN TRUE
  ELSE Outcomes(which, _walk(p.node), 1, 1) <= MaxOutcomes

Enumerable(which, text) == Countable(which, _start(text))

-----------------------------------------------------------------------------
(* The bot                                                                 *)

NoReply == Answer("", "", NoLocals)

Init ==
  /\ impl \in {"client", "legacy"}
  /\ pc = "idle"
  /\ message = <<>>
  /\ content = <<>>
  /\ parser = NoParser
  /\ reply = NoReply
  /\ roll_request_counter = 0

\* a user posts "!diecast roll <text>" (bot/client.py) or "!diecast <text>"
\* (bot/__init__.py) in the channel
Post(text) ==
  /\ pc = "idle"
  /\ roll_request_counter < MaxRequests
  /\ Enumerable(impl, join(split(text)))
  /\ pc' = "posted"
  /\ message' = text
  /\ UNCHANGED <<impl, content, parser, reply, roll_request_counter>>

\* DieCastBot.on_message of bot/client.py, up to the await of the send
on_message ==
  /\ pc = "posted"
  /\ impl = "client"
  /\ content' = join(split(strip(message)))
  /\ \E end \in _on_roll_request(content') :
       /\ reply' = end.reply
       /\ parser' = end.parser
       /\ roll_request_counter' = roll_request_counter + end.serviced
  /\ pc' = "sending"
  /\ message' = <<>>
  /\ UNCHANGED impl

\* DieCastBot.on_message of bot/__init__.py, up to the await of the send
legacy_on_message ==
  /\ pc = "posted"
  /\ impl = "legacy"
  /\ content' = join(split(strip(message)))
  /\ \E end \in legacy_roll_request(content') :
       /\ reply' = end.reply
       /\ parser' = end.parser
  /\ pc' = "sending"
  /\ message' = <<>>
  /\ UNCHANGED <<impl, roll_request_counter>>

\* await message.channel.send(...) returns, or the exception has left the
\* handler: the request is over and its locals are gone
Sent ==
  /\ pc = "sending"
  /\ pc' = "idle"
  /\ content' = <<>>
  /\ parser' = NoParser
  /\ reply' = NoReply
  /\ UNCHANGED <<impl, message, roll_request_counter>>

Next ==
  \/ \E text \in Texts : Post(text)
  \/ on_message
  \/ legacy_on_message
  \/ Sent

Spec == Init /\ [][Next]_vars

-----------------------------------------------------------------------------
(* The parser alone, on any text                                           *)

ParserInit ==
  /\ impl = "client"
  /\ pc = "text"
  /\ message \in Texts
  /\ content = <<>>
  /\ parser = NoParser
  /\ reply = NoReply
  /\ roll_request_counter = 0

\* tree = DieCastParser(text)
Construct ==
  /\ pc = "text"
  /\ pc' = "parsed"
  /\ parser' = DieCastParser(message)
  /\ UNCHANGED <<impl, message, content, reply, roll_request_counter>>

ParserNext == Construct

SpecParser == ParserInit /\ [][ParserNext]_vars

-----------------------------------------------------------------------------
(* What the properties below speak of                                      *)

\* the handler has run on content and its answer is in reply
Handled == pc = "sending"

\* the terminal nodes of the request in walk order, as the parser builds them
NodesOf(p) == IF p.err = "" /\ p.node # None THEN _walk(p.node) ELSE <<>>
Nodes == NodesOf(_start(content))

\* the locals before the k-th terminal was dealt with
Before_(k) == IF k = 1 THEN Locals0 ELSE reply.trace[k - 1]

\* the sign of the nearest operator before terminal i, +1 if there is none
RECURSIVE SignAt(_, _)
SignAt(nodes, i) ==
  IF i <= 1 THEN 1
  ELSE IF nodes[i - 1].type = "operator"
       THEN (IF nodes[i - 1].raw = <<"-">> THEN -1 ELSE 1)
       ELSE SignAt(nodes, i - 1)

Higher(pair) == IF pair[1] >= pair[2] THEN pair[1] ELSE pair[2]
Lower(pair) == IF pair[1] <= pair[2] THEN pair[1] ELSE pair[2]

\* a request that is integer constants joined by + and -, read character by
\* character: [ok, sum]
RECURSIVE ConstScan(_, _, _, _, _, _)
ConstScan(text, i, state, sign, cur, acc) ==
  IF i > Len(text)
  THEN [ok |-> state # "term", sum |-> acc + sign * cur]
  ELSE IF text[i] = " "
  THEN ConstScan(text, i + 1, IF state = "num" THEN "gap" ELSE state, sign, cur, acc)
  ELSE IF text[i] \in DigitChars
  THEN IF state = "gap" THEN [ok |-> FALSE, sum |-> 0]
       ELSE ConstScan(text, i + 1, "num", sign, 10 * cur + DigitVal(text[i]), acc)
  ELSE IF text[i] \in {"+", "-"}
  THEN IF state = "term" THEN [ok |-> FALSE, sum |-> 0]
       ELSE ConstScan(text, i + 1, "term", IF text[i] = "-" THEN -1 ELSE 1, 0,
                      acc + sign * cur)
  ELSE [ok |-> FALSE, sum |-> 0]

ConstantsOnly == ConstScan(content, 1, "term", 1, 0, 0)

\* a request "NdM": the digits of N, a d, the digits of M and nothing else
CountLen == DigitRun(content, 1)
FacesLen == DigitRun(content, CountLen + 2)
IsNdM ==
  /\ CountLen >= 1
  /\ CountLen + 1 <= Len(content)
  /\ content[CountLen + 1] = "d"
  /\ FacesLen >= 1
  /\ CountLen + 1 + FacesLen = Len(content)
NofNdM == int(SubSeq(content, 1, CountLen))
MofNdM == int(SubSeq(content, CountLen + 2, Len(content)))

\* every way the running bot could have answered this request
Ways == IF impl = "client" THEN {e.reply : e \in _on_roll_request(content)}
        ELSE {e.reply : e \in legacy_roll_request(content)}

-----------------------------------------------------------------------------
(* C1 *)

\* C1: a roll request that contains one of * / % ( ) is answered with the
\* unsupported-operator message, decided before any parser is built, and never
\* with the generic parse-error message.
C1_UnsupportedBeforeParsing ==
  (Handled /\ \E i \in DOMAIN content : content[i] \in {"*", "/", "%", "(", ")"})
    => (reply.response = "unsupported" /\ ~parser.built)

-----------------------------------------------------------------------------
(* C2 *)

\* C2: the empty request parses to an absent tree without error, and its
\* evaluation ends normally with total 0, cast count 0 and components [0].
C2_EmptyEvaluatesToZero ==
  (Handled /\ content = <<>>)
    => /\ parser.built /\ parser.raised = "" /\ parser._tree = None
       /\ reply.raised = ""
       /\ reply.response = "total"
       /\ reply.total = 0
       /\ reply.num_casts = 0
       /\ reply.components = <<Scalar(0)>>

-----------------------------------------------------------------------------
(* C3 *)

CountTooLong(node) == Len(node.n.str) > 5
FacesTooLong(node) == Len(node.size.str) > 6

\* the loop ended at terminal i with this answer
RefusedAt(i, response) == reply.response = response /\ Len(reply.trace) = i - 1

\* terminal i was rolled, or the RNG refused its empty range
RolledAt(i) ==
  \/ i <= Len(reply.trace) /\ reply.trace[i].draws # <<>>
  \/ reply.raised = "ValueError" /\ Len(reply.trace) = i - 1

SizeGuardAt(i) ==
  /\ RefusedAt(i, "too_many_dice") <=> CountTooLong(Nodes[i])
  /\ RefusedAt(i, "die_too_large") <=> (~CountTooLong(Nodes[i]) /\ FacesTooLong(Nodes[i]))
  /\ (~CountTooLong(Nodes[i]) /\ ~FacesTooLong(Nodes[i])) => RolledAt(i)

\* C3: every dice-cast term the evaluation reaches is refused as too many dice
\* iff its count text has more than 5 digits, else as too large iff its faces
\* text has more than 6 digits, and is rolled otherwise.
C3_SizeGuardOnDigits ==
  Handled =>
    \A i \in DOMAIN Nodes :
      (Nodes[i].type = "diecast" /\ i <= Len(reply.trace) + 1) => SizeGuardAt(i)

\* the same of the handler of bot/client.py alone
SizeGuardOfClient == impl = "client" => C3_SizeGuardOnDigits

-----------------------------------------------------------------------------
(* C4 *)

Refusals == {"too_many_dice", "die_too_large"}

OverSize(node) == node.type = "diecast" /\ (CountTooLong(node) \/ FacesTooLong(node))

\* the loop of bot/client.py went up to the first oversized dice cast and no
\* further: the terminals before it were dealt with, it and those after it
\* were not, and the answer has neither a total nor a breakdown
StoppedAtOverSize ==
  /\ Len(reply.trace) < Len(Nodes)
  /\ OverSize(Nodes[Len(reply.trace) + 1])
  /\ \A k \in DOMAIN reply.trace : reply.trace[k].idx = k /\ ~OverSize(Nodes[k])
  /\ reply.verb = "" /\ ~reply.breakdown /\ reply.raised = ""

\* an oversized dice cast that is reached is refused
OverSizeRefused ==
  \A i \in DOMAIN Nodes :
    (OverSize(Nodes[i]) /\ \A k \in 1 .. (i - 1) : ~OverSize(Nodes[k]))
      => \/ reply.response \in Refusals /\ Len(reply.trace) = i - 1
         \/ reply.raised = "ValueError" /\ Len(reply.trace) < i - 1

\* C4: in bot/client.py a dice cast over a size bound ends the evaluation at
\* that term (nothing after it is resolved or rolled, the answer has no total
\* and no breakdown) and leaves the counter of serviced requests as it was; a
\* parse error leaves it too; a successful evaluation adds exactly one.
C4_RefusalStopsAndCounterCounts ==
  /\ [](impl = "client" /\ Handled =>
          /\ OverSizeRefused
          /\ reply.response \in Refusals => StoppedAtOverSize)
  /\ [][(impl = "client" /\ pc = "posted" /\ pc' = "sending") =>
          /\ reply'.response \in Refusals => roll_request_counter' = roll_request_counter
          /\ reply'.response = "parse_error" => roll_request_counter' = roll_request_counter
          /\ reply'.response = "total" => roll_request_counter' = roll_request_counter + 1]_vars

\* a refusal after a die was rolled and with terms still to come
C4_Witness ==
  /\ impl = "client" /\ Handled
  /\ reply.response = "too_many_dice"
  /\ Len(reply.trace) >= 1 /\ reply.trace[1].draws = <<2>>
  /\ Len(reply.trace) + 1 < Len(Nodes)
  /\ roll_request_counter = 0

-----------------------------------------------------------------------------
(* C5 *)

\* C5: a request of integer constants joined by + and - is evaluated without
\* any RNG draw, to total = the signed sum from left to right, cast count 0 and
\* the one component [total]; whatever the RNG does the answer is the same.
C5_ConstantsNeedNoDice ==
  (Handled /\ ConstantsOnly.ok) =>
    /\ reply.raised = "" /\ reply.response = "total"
    /\ \A k \in DOMAIN reply.trace : reply.trace[k].draws = <<>>
    /\ reply.total = ConstantsOnly.sum
    /\ reply.num_casts = 0
    /\ reply.components = <<Scalar(ConstantsOnly.sum)>>
    /\ Ways = {reply}

C5_Witness ==
  /\ Handled
  /\ content = <<"1", "0", "-", "1", "+", "1">>
  /\ reply.total = 10 /\ reply.components = <<Scalar(10)>>

-----------------------------------------------------------------------------
(* C6 *)

\* C6: for a request "NdM" with N >= 1, M >= 1 and both within the size bounds,
\* whatever the RNG returns, exactly N dice are rolled, each result is in
\* 1..M, the cast count is N and the total is the sum of the N rolls.
C6_DiceInRange ==
  (Handled /\ IsNdM /\ NofNdM >= 1 /\ MofNdM >= 1 /\ CountLen <= 5 /\ FacesLen <= 6) =>
    /\ reply.raised = "" /\ reply.response = "total"
    /\ Len(reply.trace) = 1
    /\ Len(reply.trace[1].draws) = NofNdM
    /\ \A k \in DOMAIN reply.trace[1].draws : reply.trace[1].draws[k] \in 1 .. MofNdM
    /\ Len(reply.components) = 2
    /\ Len(reply.components[1].vals) = NofNdM
    /\ \A k \in DOMAIN reply.components[1].vals : reply.components[1].vals[k] \in 1 .. MofNdM
    /\ reply.num_casts = NofNdM
    /\ reply.total = sum(reply.trace[1].draws)

C6_Witness ==
  /\ Handled
  /\ content = <<"2", "d", "2">>
  /\ reply.trace[1].draws = <<1, 2>>
  /\ reply.total = 3 /\ reply.num_casts = 2

-----------------------------------------------------------------------------
(* C7 *)

AdvAt(k) ==
  LET e == reply.trace[k]
      b == Before_(k)
      pick == IF Nodes[e.idx].raw = <<"d", "i", "s">> THEN Lower(e.draws) ELSE Higher(e.draws)
  IN /\ Len(e.draws) = 2
     /\ e.draws[1] \in 1 .. 20 /\ e.draws[2] \in 1 .. 20
     /\ e.total = b.total + b.scalar * pick
     /\ e.components = Append(b.components, List(e.draws))
     /\ e.num_casts = b.num_casts + 2

Word(w) == Handled /\ content = w /\ reply.response = "total"

\* C7: for every adv / advantage / dis / disadvantage term and whatever the
\* RNG returns, two values of 1..20 are drawn, sign * the higher (adv,
\* advantage) or sign * the lower (dis, disadvantage) is added to the total,
\* the pair as drawn is appended to components and the cast count grows by 2.
C7_AdvantageTakesBestOfTwo ==
  /\ Handled => \A k \in DOMAIN reply.trace : reply.trace[k].type = "adv" => AdvAt(k)
  /\ (Word(<<"a", "d", "v">>) \/ Word(<<"a", "d", "v", "a", "n", "t", "a", "g", "e">>))
       => reply.total = Higher(reply.trace[1].draws)
  /\ (Word(<<"d", "i", "s">>)
        \/ Word(<<"d", "i", "s", "a", "d", "v", "a", "n", "t", "a", "g", "e">>))
       => reply.total = Lower(reply.trace[1].draws)

C7_Witness ==
  /\ Word(<<"1", " ", "-", " ", "d", "i", "s", "a", "d", "v", "a", "n", "t", "a", "g", "e">>)
  /\ reply.trace[3].draws = <<20, 3>>
  /\ reply.total = -2
  /\ reply.components = <<List(<<20, 3>>), Scalar(1)>>
  /\ reply.num_casts = 2

-----------------------------------------------------------------------------
(* C8 *)

SignedAt(k) ==
  LET e == reply.trace[k]
      b == Before_(k)
      node == Nodes[e.idx]
      sign == SignAt(Nodes, e.idx)
  IN /\ b.scalar = sign
     /\ node.type = "constant" => e.const_total = b.const_total + sign * int(node.raw)
     /\ node.type = "adv" =>
          e.total = b.total + sign * (IF node.raw = <<"d", "i", "s">>
                                      THEN Lower(e.draws) ELSE Higher(e.draws))
     /\ node.type = "diecast" =>
          /\ e.total = b.total + sign * sum(e.draws)
          /\ LET vals == e.components[Len(e.components)].vals
             IN /\ Len(vals) = Len(e.draws)
                /\ \A m \in DOMAIN vals : vals[m] = sign * e.draws[m]

\* C8: the running sign is +1 at the first term and, at every term, -1 exactly
\* when the nearest operator before it is '-'; whatever a term contributes
\* (each die of a cast, the picked adv/dis value, a constant) is multiplied by
\* the sign in force at that term.
C8_SignFollowsNearestOperator ==
  Handled =>
    \A k \in DOMAIN reply.trace : reply.trace[k].type # "operator" => SignedAt(k)

C8_Witness ==
  /\ Handled
  /\ content = <<"d", "2", "-", "d", "2", "+", "d", "2">>
  /\ reply.response = "total"
  /\ reply.components = <<Scalar(1), Scalar(-2), Scalar(2), Scalar(0)>>
  /\ reply.total = 1

-----------------------------------------------------------------------------
(* C9 *)

FirstNonBlank(text) == IF lstrip(text) = <<>> THEN "" ELSE lstrip(text)[1]

\* C9: a text whose first non-blank character is '-' does not parse: the
\* constructor raises ParseError and no tree is made.
C9_LeadingMinusIsParseError ==
  (pc = "parsed" /\ FirstNonBlank(message) = "-")
    => (parser.raised = "ParseError" /\ parser._tree = None)

C9_Witness ==
  /\ pc = "parsed"
  /\ message = <<" ", "-", "1">>
  /\ parser.raised = "ParseError"

-----------------------------------------------------------------------------
(* C10 *)

\* C10 as stated: the breakdown is shown iff the number of components (one per
\* dice-cast or adv/dis term, plus the constant subtotal) is under 25.
C10_BreakdownByComponents ==
  (Handled /\ reply.response = "total")
    => (reply.breakdown <=> Len(reply.components) < 25)

\* 2 for an adv/dis term, the count for a dice cast
RECURSIVE CastCount(_, _)
CastCount(nodes, i) ==
  IF i > Len(nodes) THEN 0
  ELSE CastCount(nodes, i + 1)
         + (IF nodes[i].type = "adv" THEN 2
            ELSE IF nodes[i].type = "diecast" THEN int(nodes[i].n.str) ELSE 0)

\* C10 (amended): the breakdown is shown iff the cast count (2 for each adv/dis
\* term plus the count of each dice-cast term) is under 25, whatever the number
\* of components.
C10_BreakdownByCastCount ==
  (Handled /\ reply.response = "total")
    => /\ reply.num_casts = CastCount(Nodes, 1)
       /\ reply.breakdown <=> CastCount(Nodes, 1) < 25

C10_Witness ==
  /\ Handled /\ reply.response = "total"
  /\ reply.num_casts = 25
  /\ Len(reply.components) = 2
  /\ ~reply.breakdown

-----------------------------------------------------------------------------
(* C11 *)

\* C11: constructing the parser on any text ends either with a parse result (a
\* tree, or the absent tree of the empty text) or with ParseError; no other
\* exception leaves the constructor.
C11_OnlyParseErrorEscapes ==
  pc = "parsed" =>
    /\ parser.built
    /\ parser.raised \in {"", "ParseError"}
    /\ parser.raised = "ParseError" => parser._tree = None
    /\ (parser.raised = "" /\ parser._tree = None) => message = <<>>

-----------------------------------------------------------------------------
(* C12 *)

\* the RNG draws the evaluation made, over all the terminals it dealt with
RECURSIVE DrawsMade(_, _)
DrawsMade(trace, k) ==
  IF k > Len(trace) THEN 0 ELSE Len(trace[k].draws) + DrawsMade(trace, k + 1)

\* C12: after a successful evaluation the cast count is the number of dice
\* rolled (the RNG draws made), and that is 2 for each adv/dis term plus the
\* count of each dice-cast term, for every count text the parser accepts.
C12_CastCountIsDrawsMade ==
  (Handled /\ reply.response = "total") =>
    /\ reply.num_casts = DrawsMade(reply.trace, 1)
    /\ reply.num_casts = CastCount(Nodes, 1)

-----------------------------------------------------------------------------
(* C13 *)

TermTypes == {"constant", "diecast", "adv"}

Token(type, raw) == [type |-> type, raw |-> raw]

\* the text read from left to right, without any tree: the terminals it holds
\* from position i on, a term being wanted when want = "term" and an operator
\* when want = "operator"; a token of type "bad" where neither can be read
RECURSIVE Scan(_, _, _)
Scan(text, i0, want) ==
  LET i == i0 + SpaceRun(text, i0)
      n == DigitRun(text, i)
      d == i + n + SpaceRun(text, i + n)
      f == d + 1 + SpaceRun(text, d + 1)
      m == DigitRun(text, f)
      w == WordRun(text, i)
  IN IF i > Len(text) THEN <<>>
     ELSE IF want = "operator"
     THEN IF text[i] \in {"+", "-"}
          THEN <<Token("operator", <<text[i]>>)>> \o Scan(text, i + 1, "term")
          ELSE <<Token("bad", <<>>)>>
     ELSE IF d <= Len(text) /\ text[d] = "d" /\ m >= 1
     THEN <<Token("diecast", SubSeq(text, i, f + m - 1))>> \o Scan(text, f + m, "operator")
     ELSE IF n >= 1
     THEN <<Token("constant", SubSeq(text, i, i + n - 1))>> \o Scan(text, i + n, "operator")
     ELSE IF SubSeq(text, i, i + w - 1) \in Keywords
     THEN <<Token("adv", SubSeq(text, i, i + 2))>> \o Scan(text, i + w, "operator")
     ELSE <<Token("bad", <<>>)>>

\* what the walker yields on the tree the parser holds
Walked == walk_terminal_nodes(parser._tree).nodes
WalkedTokens == [k \in DOMAIN Walked |-> Token(Walked[k].type, Walked[k].raw)]

\* term (operator term)*
Alternates(tokens) ==
  /\ Len(tokens) % 2 = 1
  /\ \A k \in DOMAIN tokens :
       IF k % 2 = 1 THEN tokens[k].type \in TermTypes ELSE tokens[k].type = "operator"

\* every node that is not a leaf has 1 or 2 children, a term_tail has its
\* operator first and its expression second, and the terminals are the leaves
RECURSIVE WellShaped(_)
WellShaped(node) ==
  IF node.type \in terminal_types THEN node.children = <<>>
  ELSE /\ Len(node.children) \in {1, 2}
       /\ node.type = "term_tail" =>
            /\ Len(node.children) = 2
            /\ node.children[1].type = "operator"
            /\ node.children[2].type = "expression"
       /\ \A k \in DOMAIN node.children : WellShaped(node.children[k])

HasTree == pc = "parsed" /\ parser.raised = "" /\ parser._tree # None

\* C13: for every non-empty text that parses, the walker yields the terminals
\* in the left-to-right order of the text, they have the shape
\* term (operator term)*, and every non-leaf node of the tree has 1 or 2
\* children, a term_tail holding its operator before its expression.
C13_WalkFollowsTheText ==
  HasTree =>
    /\ WalkedTokens = Scan(message, 1, "term")
    /\ Alternates(WalkedTokens)
    /\ WellShaped(parser._tree)

C13_Witness ==
  /\ HasTree
  /\ message = <<"d", "2", "-", "2", "d", "1", "+", "1", "0">>
  /\ WalkedTokens = << Token("diecast", <<"d", "2">>), Token("operator", <<"-">>),
                       Token("diecast", <<"2", "d", "1">>), Token("operator", <<"+">>),
                       Token("constant", <<"1", "0">>) >>

-----------------------------------------------------------------------------
(* C14 *)

\* the tree as the constructor of the running bot's parser left it
TreeAsBuilt ==
  IF impl = "client" THEN DieCastParser(content)._tree
  ELSE LegacyDieCastParser(content)._tree

\* C14: once the parser has built a tree, evaluation leaves every node of it
\* as it was (type, raw text, children, and the count and faces fields of a
\* dice cast), so that a second walk would read the same tree.
C14_EvaluationLeavesTheTree ==
  (Handled /\ parser.built /\ parser.raised = "") => parser._tree = TreeAsBuilt

-----------------------------------------------------------------------------
(* C15 *)

\* the entry each dice-cast or adv/dis terminal of the trace appends, in the
\* order the terminals were dealt with
RECURSIVE EntriesOf(_, _)
EntriesOf(trace, k) ==
  IF k > Len(trace) THEN <<>>
  ELSE LET e == trace[k]
           sign == SignAt(Nodes, e.idx)
           entry ==
             IF e.type = "adv" THEN <<List(e.draws)>>
             ELSE IF e.type = "diecast"
             THEN (IF Len(e.draws) = 1 THEN <<Scalar(sign * e.draws[1])>>
                   ELSE <<List([m \in DOMAIN e.draws |-> sign * e.draws[m]])>>)
             ELSE <<>>
       IN entry \o EntriesOf(trace, k + 1)

\* the signed sum of the constants of the request
RECURSIVE ConstantSubtotal(_, _)
ConstantSubtotal(nodes, i) ==
  IF i > Len(nodes) THEN 0
  ELSE ConstantSubtotal(nodes, i + 1)
         + (IF nodes[i].type = "constant" THEN SignAt(nodes, i) * int(nodes[i].raw) ELSE 0)

\* the sum of all the integers of components, the lists flattened
RECURSIVE FlatSum(_, _)
FlatSum(components, k) ==
  IF k > Len(components) THEN 0
  ELSE sum(components[k].vals) + FlatSum(components, k + 1)

RolledTerms == {i \in DOMAIN Nodes : Nodes[i].type \in {"diecast", "adv"}}

\* C15: after a successful evaluation components is one entry for each
\* dice-cast or adv/dis term, in the order of the text, followed by exactly one
\* entry for the constant subtotal (there even when it is 0); and when the
\* request has no adv/dis term the total is the sum of all the integers in
\* components.
C15_ComponentsAccountForTotal ==
  (Handled /\ reply.response = "total") =>
    /\ Len(reply.trace) = Len(Nodes)
    /\ \A k \in DOMAIN reply.trace : reply.trace[k].idx = k
    /\ reply.components =
         EntriesOf(reply.trace, 1) \o <<Scalar(ConstantSubtotal(Nodes, 1))>>
    /\ Len(reply.components) = Cardinality(RolledTerms) + 1
    /\ (\A i \in DOMAIN Nodes : Nodes[i].type # "adv")
         => reply.total = FlatSum(reply.components, 1)

C15_Witness ==
  /\ Handled /\ reply.response = "total"
  /\ content = <<"d", "2", "-", "2", "d", "1", "+", "d", "2">>
  /\ reply.components = <<Scalar(2), List(<<-1, -1>>), Scalar(1), Scalar(0)>>
  /\ reply.total = 1

====
